---- MODULE Spec2Model ----
(***************************************************************************)
(* Model of the live audio relay of the OmniDock App component             *)
(* (src/unnamed/part_000): startLiveComm, its remote-session callbacks     *)
(* onopen / onmessage / onclose, the microphone streaming set-up, and      *)
(* stopLiveComm.                                                           *)
(*                                                                         *)
(* Time is counted in tenths of a second.  Every call of startLiveComm     *)
(* that passes its guard is an invocation i \in Invocations; it creates    *)
(* the output AudioContext i and asks for the remote session i, and later  *)
(* the microphone stream / input context / script processor i.             *)
(*                                                                         *)
(* The event loop is single threaded: a handler runs until it returns or   *)
(* reaches an await.  The await of decodeAudioData inside onmessage, and   *)
(* the await of connect once onopen has been called, are resumed from the  *)
(* microtask queue, in FIFO order, before any other task (a click, a       *)
(* socket open / close, a getUserMedia result) is run; the transport may   *)
(* however deliver several messages before the first handler is resumed,   *)
(* and the audio clock runs on its own thread.                             *)
(***************************************************************************)
EXTENDS Integers, Sequences, FiniteSets, TLC

\* ---- bounds of the model ----
MaxStarts == 2          \* calls of startLiveComm
MaxChunks == 2          \* inbound audio messages of a run of the whole relay
PlaybackChunks == 3     \* inbound audio messages of a run of one established session
MaxFrames == 1          \* outbound frames sent

Invocations == 1..MaxStarts
\* buffer.duration of the decoded inbound chunks (tenths of a second)
Durations == {2, 3, 5}
\* the readings of an output clock that are told apart (tenths of a second)
ClockReadings == {0, 1, 9}

VARIABLES
    isLiveActive,       \* useState(false), line 43
    liveSessionRef,     \* useRef(null), line 47: 0 is null, else the invocation whose {session, stream, inCtx} it holds
    audioContextRef,    \* useRef(null), line 48: 0 is null, else the output context
    nextStartTimeRef,   \* useRef(0), line 49: the Playback Cursor
    sourcesRef,         \* useRef(new Set()), line 50: indices into scheduled
    currentTime,        \* currentTime of the context audioContextRef.current
    session,            \* state of the remote session each invocation asked for
    pc,                 \* position of each invocation of startLiveComm
    capture,            \* microphone stream / inCtx / processor of each invocation
    pending,            \* onmessage handlers suspended at their await, oldest first
    scheduled,          \* the calls of source.start made so far, in call order
    inbound,            \* audio messages the remote end has still to deliver
    framesSent,         \* calls of session.sendRealtimeInput
    startCalls,         \* calls of startLiveComm
    lastReq,            \* the last request of the user that acted: "none", "start", "stop"
    chatHistory,        \* useState([]), line 41
    isLoading,          \* useState(false), line 42
    chatCalls,          \* calls of handleChat awaiting runDeepIntel, with the history they captured
    chatLog,            \* the messages submitted and the replies received, and whether a request failed
    codecIn,            \* the argument of the audio utility being applied
    codecOut            \* its result, of stage "none" before it is applied

\* the state of the chat panel
chatVars == <<chatHistory, isLoading, chatCalls, chatLog>>

\* the argument and result of the audio utilities
codecVars == <<codecIn, codecOut>>

\* the state of the live relay and of its environment
liveVars == <<isLiveActive, liveSessionRef, audioContextRef, nextStartTimeRef, sourcesRef,
              currentTime, session, pc, capture, pending, scheduled, inbound, framesSent,
              startCalls, lastReq>>

vars == <<isLiveActive, liveSessionRef, audioContextRef, nextStartTimeRef, sourcesRef,
          currentTime, session, pc, capture, pending, scheduled, inbound, framesSent,
          startCalls, lastReq, chatHistory, isLoading, chatCalls, chatLog, codecIn,
          codecOut>>

\* the state the relay owns (everything but the environment and the observers of calls)
relayVars == <<isLiveActive, liveSessionRef, audioContextRef, nextStartTimeRef, sourcesRef,
               currentTime, session, pc, capture, pending, scheduled>>

\* the playback state
playVars == <<nextStartTimeRef, sourcesRef, pending, scheduled, inbound>>

\* the chat panel of a freshly mounted component
InitChat ==
    /\ chatHistory = <<>>
    /\ isLoading = FALSE
    /\ chatCalls = {}
    /\ chatLog = [sent |-> <<>>, replied |-> {}, failed |-> FALSE]

\* no audio utility is being applied
InitCodecIdle ==
    /\ codecIn = "none"
    /\ codecOut = [stage |-> "none"]

Init ==
    /\ InitChat
    /\ InitCodecIdle
    /\ isLiveActive = FALSE
    /\ liveSessionRef = 0
    /\ audioContextRef = 0
    /\ nextStartTimeRef = 0
    /\ sourcesRef = {}
    /\ currentTime = 0
    /\ session = [i \in Invocations |-> "none"]
    /\ pc = [i \in Invocations |-> "idle"]
    /\ capture = [i \in Invocations |-> "off"]
    /\ pending = <<>>
    /\ scheduled = <<>>
    /\ inbound = MaxChunks
    /\ framesSent = 0
    /\ startCalls = 0
    /\ lastReq = "none"

\* lines 101, 113: a continuation is queued as a microtask: the await of connect of an
\* invocation whose session has opened, or the await of decodeAudioData of a handler
MicrotaskQueued ==
    \/ pending # <<>>
    \/ \E i \in Invocations : pc[i] = "connect" /\ session[i] = "open"

\* ---- startLiveComm ----

\* a start that does not test the flag
EarlyReturnNever == FALSE

\* line 96: if (isLiveActive) return;
EarlyReturn == isLiveActive

\* the invocation a call that passes the guard becomes
NewInvocation == Cardinality({i \in Invocations : pc[i] # "idle"}) + 1

\* lines 95-101: guard, new output AudioContext (its clock starts at 0),
\* ai.live.connect(...) called and awaited
StartLiveComm ==
    /\ UNCHANGED <<chatVars, codecVars>>
    /\ ~MicrotaskQueued
    /\ startCalls < MaxStarts
    /\ startCalls' = startCalls + 1
    /\ IF EarlyReturn
       THEN UNCHANGED <<relayVars, inbound, framesSent, lastReq>>
       ELSE /\ audioContextRef' = NewInvocation
            /\ currentTime' = 0
            /\ session' = [session EXCEPT ![NewInvocation] = "connecting"]
            /\ pc' = [pc EXCEPT ![NewInvocation] = "connect"]
            /\ lastReq' = "start"
            /\ UNCHANGED <<isLiveActive, liveSessionRef, capture, playVars, framesSent>>

\* lines 104-107: onopen callback of session i
OnOpen(i) ==
    /\ UNCHANGED <<chatVars, codecVars>>
    /\ ~MicrotaskQueued
    /\ session[i] = "connecting"
    /\ session' = [session EXCEPT ![i] = "open"]
    /\ isLiveActive' = TRUE
    /\ UNCHANGED <<liveSessionRef, audioContextRef, currentTime, pc, capture, playVars,
                   framesSent, startCalls, lastReq>>

\* lines 101, 133: the await of connect resumes with the session, getUserMedia is called
ConnectResolve(i) ==
    /\ UNCHANGED <<chatVars, codecVars>>
    /\ pending = <<>>
    /\ pc[i] = "connect"
    /\ session[i] = "open"
    /\ pc' = [pc EXCEPT ![i] = "mic"]
    /\ UNCHANGED <<isLiveActive, liveSessionRef, audioContextRef, currentTime, session,
                   capture, playVars, framesSent, startCalls, lastReq>>

\* line 101: connect rejects; startLiveComm has no try/catch, the invocation ends there
ConnectReject(i) ==
    /\ UNCHANGED <<chatVars, codecVars>>
    /\ ~MicrotaskQueued
    /\ pc[i] = "connect"
    /\ session[i] = "connecting"
    /\ session' = [session EXCEPT ![i] = "failed"]
    /\ pc' = [pc EXCEPT ![i] = "failed"]
    /\ UNCHANGED <<isLiveActive, liveSessionRef, audioContextRef, currentTime, capture,
                   playVars, framesSent, startCalls, lastReq>>

\* lines 133-149: getUserMedia resolves; input context, processor wired, reference stored
MicResolve(i) ==
    /\ UNCHANGED <<chatVars, codecVars>>
    /\ ~MicrotaskQueued
    /\ pc[i] = "mic"
    /\ capture' = [capture EXCEPT ![i] = "on"]
    /\ liveSessionRef' = i
    /\ pc' = [pc EXCEPT ![i] = "done"]
    /\ UNCHANGED <<isLiveActive, audioContextRef, currentTime, session, playVars,
                   framesSent, startCalls, lastReq>>

\* line 133: getUserMedia rejects; the invocation ends there
MicReject(i) ==
    /\ UNCHANGED <<chatVars, codecVars>>
    /\ ~MicrotaskQueued
    /\ pc[i] = "mic"
    /\ pc' = [pc EXCEPT ![i] = "failed"]
    /\ UNCHANGED <<isLiveActive, liveSessionRef, audioContextRef, currentTime, session,
                   capture, playVars, framesSent, startCalls, lastReq>>

\* line 123: onerror callback of session i (the transport failed): the error is logged
OnError(i) ==
    /\ UNCHANGED <<chatVars, codecVars>>
    /\ ~MicrotaskQueued
    /\ session[i] = "open"
    /\ session' = [session EXCEPT ![i] = "errored"]
    /\ UNCHANGED <<isLiveActive, liveSessionRef, audioContextRef, currentTime, pc, capture,
                   playVars, framesSent, startCalls, lastReq>>

\* line 122: onclose callback of session i (the remote end closed, or the failed
\* transport was closed)
OnClose(i) ==
    /\ UNCHANGED <<chatVars, codecVars>>
    /\ ~MicrotaskQueued
    /\ session[i] \in {"open", "errored"}
    /\ session' = [session EXCEPT ![i] = "closed"]
    /\ isLiveActive' = FALSE
    /\ UNCHANGED <<liveSessionRef, audioContextRef, currentTime, pc, capture, playVars,
                   framesSent, startCalls, lastReq>>

\* lines 138-145: processor.onaudioprocess of invocation i sends one frame
AudioProcess(i) ==
    /\ UNCHANGED <<chatVars, codecVars>>
    /\ ~MicrotaskQueued
    /\ capture[i] = "on"
    /\ framesSent < MaxFrames
    /\ framesSent' = framesSent + 1
    /\ UNCHANGED <<relayVars, inbound, startCalls, lastReq>>

\* ---- onmessage ----

\* a clamp that takes the clock whatever the cursor is
ClampCursorNow(cursor, now) == now

\* a handler that does not clamp
ClampCursorNone(cursor, now) == cursor

\* line 112: Math.max(nextStartTimeRef.current, ctx.currentTime)
ClampCursor(cursor, now) == IF cursor >= now THEN cursor ELSE now

\* a source started at the clock instead of the cursor
StartTimeNow(cursor, now) == now

\* line 117: source.start(nextStartTimeRef.current)
StartTime(cursor, now) == cursor

\* a cursor that is not advanced
AdvanceCursorNone(cursor, duration) == cursor

\* line 118: nextStartTimeRef.current += buffer.duration
AdvanceCursor(cursor, duration) == cursor + duration

\* lines 109-113: an audio message of session i whose chunk decodes to duration d:
\* the cursor is clamped, then the handler awaits decodeAudioData
OnMessage(i, d) ==
    /\ UNCHANGED <<chatVars, codecVars>>
    /\ session[i] = "open"
    /\ \A j \in Invocations : pc[j] = "connect" => session[j] # "open"
    /\ audioContextRef # 0
    /\ inbound > 0
    /\ inbound' = inbound - 1
    /\ nextStartTimeRef' = ClampCursor(nextStartTimeRef, currentTime)
    /\ pending' = Append(pending, [ctx |-> audioContextRef, dur |-> d,
                                   callClock |-> currentTime,
                                   fast |-> currentTime <= nextStartTimeRef,
                                   seq |-> Len(scheduled) + Len(pending) + 1])
    /\ UNCHANGED <<isLiveActive, liveSessionRef, audioContextRef, sourcesRef, currentTime,
                   session, pc, capture, scheduled, framesSent, startCalls, lastReq>>

\* a queue that resumes the handler suspended last
ResumedNewest(q) == Len(q)

\* lines 26-35, 113: decodeAudioData contains no await, so its promise is resolved when
\* it returns and the handlers resume in the order they were suspended: the oldest first
Resumed(q) == 1

\* lines 114-119: the oldest suspended handler resumes: source created, started at the
\* cursor, cursor advanced, source added to the set
ResumeOnMessage ==
    /\ UNCHANGED <<chatVars, codecVars>>
    /\ pending # <<>>
    /\ LET r == Resumed(pending)
           h == pending[r] IN
       /\ scheduled' = Append(scheduled,
                              [ctx |-> h.ctx,
                               start |-> StartTime(nextStartTimeRef, currentTime),
                               dur |-> h.dur, callClock |-> h.callClock, fast |-> h.fast,
                               seq |-> h.seq,
                               startClock |-> currentTime, stopped |-> FALSE])
       /\ nextStartTimeRef' = AdvanceCursor(nextStartTimeRef, h.dur)
       /\ pending' = SubSeq(pending, 1, r - 1) \o SubSeq(pending, r + 1, Len(pending))
    /\ sourcesRef' = sourcesRef \cup {Len(scheduled) + 1}
    /\ UNCHANGED <<isLiveActive, liveSessionRef, audioContextRef, currentTime, session, pc,
                   capture, inbound, framesSent, startCalls, lastReq>>

\* the audio thread advances the clock of the output context
Tick ==
    /\ UNCHANGED <<chatVars, codecVars>>
    /\ audioContextRef # 0
    /\ \E t \in ClockReadings : t > currentTime /\ currentTime' = t
    /\ UNCHANGED <<isLiveActive, liveSessionRef, audioContextRef, session, pc, capture,
                   playVars, framesSent, startCalls, lastReq>>

\* ---- stopLiveComm ----

\* lines 152-158
StopLiveComm ==
    /\ UNCHANGED <<chatVars, codecVars>>
    /\ ~MicrotaskQueued
    /\ capture' = IF liveSessionRef # 0
                  THEN [capture EXCEPT ![liveSessionRef] = "stopped"]
                  ELSE capture
    /\ isLiveActive' = FALSE
    /\ lastReq' = "stop"
    /\ UNCHANGED <<liveSessionRef, audioContextRef, currentTime, session, pc, playVars,
                   framesSent, startCalls>>

Next ==
    \/ StartLiveComm
    \/ StopLiveComm
    \/ \E i \in Invocations : OnOpen(i)
    \/ \E i \in Invocations : ConnectResolve(i)
    \/ \E i \in Invocations : ConnectReject(i)
    \/ \E i \in Invocations : MicResolve(i)
    \/ \E i \in Invocations : MicReject(i)
    \/ \E i \in Invocations : OnError(i)
    \/ \E i \in Invocations : OnClose(i)
    \/ \E i \in Invocations : AudioProcess(i)
    \/ \E i \in Invocations, d \in Durations : OnMessage(i, d)
    \/ ResumeOnMessage
    \/ Tick

\* the whole relay, from the mounted component
Spec == Init /\ [][Next]_vars

\* ---- one established session ----

\* the state after startLiveComm, onopen, the resumption of connect and of getUserMedia,
\* on a freshly mounted component
InitPlayback ==
    /\ InitChat
    /\ InitCodecIdle
    /\ isLiveActive = TRUE
    /\ liveSessionRef = 1
    /\ audioContextRef = 1
    /\ nextStartTimeRef = 0
    /\ sourcesRef = {}
    /\ currentTime = 0
    /\ session = [i \in Invocations |-> IF i = 1 THEN "open" ELSE "none"]
    /\ pc = [i \in Invocations |-> IF i = 1 THEN "done" ELSE "idle"]
    /\ capture = [i \in Invocations |-> IF i = 1 THEN "on" ELSE "off"]
    /\ pending = <<>>
    /\ scheduled = <<>>
    /\ inbound = PlaybackChunks
    /\ framesSent = 0
    /\ startCalls = 1
    /\ lastReq = "start"

NextPlayback ==
    \/ \E i \in Invocations, d \in Durations : OnMessage(i, d)
    \/ ResumeOnMessage
    \/ Tick

\* the inbound path of one session: messages, resumptions and the clock
SpecPlayback == InitPlayback /\ [][NextPlayback]_vars

\* ---- the audio utilities ----

MaxBytes == 4           \* length of the byte blocks given to decodeAudioData
MaxChannels == 2        \* numChannels given to decodeAudioData
MaxBlock == 2           \* samples of a captured block
SubSteps == 4           \* sample values told apart inside one quantization step

\* lines 32, 141: the scale between a sample in [-1, 1) and a 16-bit integer
FullScale == 32768

\* the bytes of the blocks given to decodeAudioData
ByteValues == {0, 128, 255}

\* a sample is the numerator v of v / (FullScale * SubSteps): -1, just above -1, -1/2,
\* minus one step, just below 0, 0, just above 0, above one step, 255 and 256 steps,
\* just below 1, and 1
SampleValues ==
    {-(FullScale * SubSteps), 1 - (FullScale * SubSteps), -((FullScale \div 2) * SubSteps),
     -SubSteps, -1, 0, 1, SubSteps + 1, 255 * SubSteps, 256 * SubSteps,
     FullScale * SubSteps - 1, FullScale * SubSteps}

\* the sequences over S of length 0..n
SeqUpTo(S, n) == UNION {[1..k -> S] : k \in 0..n}

\* conversion of a number to Int16 on a typed-array store: the fraction is dropped
\* (toward zero) and the integer wraps modulo 2^16
ToInt16(num, den) ==
    LET t == IF num >= 0 THEN num \div den ELSE -((-num) \div den)
    IN  ((t + FullScale) % (2 * FullScale)) - FullScale

\* line 141: int16[i] = input[i] * 32768
Quantize(v) == ToInt16(v, SubSteps)

\* a packing that puts the high byte first
Int16BytesHighFirst(ints) ==
    [k \in 1..(2 * Len(ints)) |->
        LET u == ints[(k + 1) \div 2] % (2 * FullScale)
        IN  IF k % 2 = 1 THEN u \div 256 ELSE u % 256]

\* line 143: new Uint8Array(int16.buffer): two bytes per integer, low byte first
Int16Bytes(ints) ==
    [k \in 1..(2 * Len(ints)) |->
        LET u == ints[(k + 1) \div 2] % (2 * FullScale)
        IN  IF k % 2 = 1 THEN u % 256 ELSE u \div 256]

\* btoa: three bytes to four sextets (0..63), '=' (64) where the input ends
Btoa(str) ==
    LET n == Len(str)
        at(j) == IF j <= n THEN str[j] ELSE 0
        word(g) == at(3 * g - 2) * 65536 + at(3 * g - 1) * 256 + at(3 * g)
        weight == <<262144, 4096, 64, 1>>
    IN  [k \in 1..(4 * ((n + 2) \div 3)) |->
            LET g == ((k - 1) \div 4) + 1
                j == (k - 1) % 4
            IN  IF (j = 2 /\ 3 * g - 1 > n) \/ (j = 3 /\ 3 * g > n)
                THEN 64
                ELSE (word(g) \div weight[j + 1]) % 64]

\* atob: four sextets to three bytes, less the padded ones
Atob(text) ==
    LET m == Len(text)
        pads == Cardinality({k \in 1..m : text[k] = 64})
        at(k) == IF text[k] = 64 THEN 0 ELSE text[k]
        word(g) == at(4 * g - 3) * 262144 + at(4 * g - 2) * 4096 + at(4 * g - 1) * 64 + at(4 * g)
        weight == <<65536, 256, 1>>
    IN  [j \in 1..((m \div 4) * 3 - pads) |->
            (word(((j - 1) \div 3) + 1) \div weight[((j - 1) % 3) + 1]) % 256]

\* lines 20-24: encode: the bytes as a binary string (one code unit per byte), then btoa
Encode(bytes) == Btoa([k \in 1..Len(bytes) |-> bytes[k]])

\* lines 12-18: decode: atob, then the code unit of each character as a byte
Decode(base64) == LET binaryString == Atob(base64)
                  IN  [k \in 1..Len(binaryString) |-> binaryString[k]]

\* line 27: the 16-bit integer k (from 0) of the view on the bytes, low byte first
Int16At(data, k) ==
    LET u == data[2 * k + 1] + 256 * data[2 * k + 2]
    IN  IF u >= FullScale THEN u - 2 * FullScale ELSE u

\* lines 26-35: decodeAudioData.  new Int16Array(data.buffer) throws a RangeError when
\* the byte length is odd; createBuffer takes the integer part of frameCount and
\* throws a NotSupportedError when it is 0; a sample is the numerator of n / 32768
DecodeAudioData(data, numChannels) ==
    IF Len(data) % 2 # 0 THEN [ok |-> FALSE, error |-> "RangeError"]
    ELSE LET frameCount == (Len(data) \div 2) \div numChannels
         IN  IF frameCount = 0 THEN [ok |-> FALSE, error |-> "NotSupportedError"]
             ELSE [ok |-> TRUE, frames |-> frameCount,
                   channels |-> [c \in 1..numChannels |->
                                    [f \in 1..frameCount |->
                                        Int16At(data, (f - 1) * numChannels + (c - 1))]]]

\* -- decodeAudioData applied to a byte block --

InitDecode ==
    /\ InitChat
    /\ isLiveActive = FALSE
    /\ liveSessionRef = 0
    /\ audioContextRef = 0
    /\ nextStartTimeRef = 0
    /\ sourcesRef = {}
    /\ currentTime = 0
    /\ session = [i \in Invocations |-> "none"]
    /\ pc = [i \in Invocations |-> "idle"]
    /\ capture = [i \in Invocations |-> "off"]
    /\ pending = <<>>
    /\ scheduled = <<>>
    /\ inbound = 0
    /\ framesSent = 0
    /\ startCalls = 0
    /\ lastReq = "none"
    /\ codecIn \in [data : SeqUpTo(ByteValues, MaxBytes), numChannels : 1..MaxChannels]
    /\ codecOut = [stage |-> "none"]

\* lines 26-35: the call decodeAudioData(data, ctx, sampleRate, numChannels)
DecodeBlock ==
    /\ codecOut.stage = "none"
    /\ codecOut' = [stage |-> "decoded",
                    buffer |-> DecodeAudioData(codecIn.data, codecIn.numChannels)]
    /\ UNCHANGED <<liveVars, chatVars, codecIn>>

SpecDecode == InitDecode /\ [][DecodeBlock]_vars

\* -- a captured block encoded, then decoded --

InitRoundTrip ==
    /\ InitChat
    /\ isLiveActive = FALSE
    /\ liveSessionRef = 0
    /\ audioContextRef = 0
    /\ nextStartTimeRef = 0
    /\ sourcesRef = {}
    /\ currentTime = 0
    /\ session = [i \in Invocations |-> "none"]
    /\ pc = [i \in Invocations |-> "idle"]
    /\ capture = [i \in Invocations |-> "off"]
    /\ pending = <<>>
    /\ scheduled = <<>>
    /\ inbound = 0
    /\ framesSent = 0
    /\ startCalls = 0
    /\ lastReq = "none"
    /\ codecIn \in [input : SeqUpTo(SampleValues, MaxBlock) \ {<<>>}]
    /\ codecOut = [stage |-> "none"]

\* lines 139-144: onaudioprocess quantizes the block, views it as bytes and encodes it
EncodeFrame ==
    /\ codecOut.stage = "none"
    /\ codecOut' = [stage |-> "encoded",
                    data |-> Encode(Int16Bytes([k \in 1..Len(codecIn.input) |->
                                                   Quantize(codecIn.input[k])]))]
    /\ UNCHANGED <<liveVars, chatVars, codecIn>>

\* line 113: decodeAudioData(decode(audioBase64), ctx, 24000, 1) on that payload
DecodeFrame ==
    /\ codecOut.stage = "encoded"
    /\ codecOut' = [stage |-> "decoded", buffer |-> DecodeAudioData(Decode(codecOut.data), 1)]
    /\ UNCHANGED <<liveVars, chatVars, codecIn>>

NextRoundTrip == EncodeFrame \/ DecodeFrame

SpecRoundTrip == InitRoundTrip /\ [][NextRoundTrip]_vars

\* ---- the chat ----

MaxChats == 3           \* handleChat calls

\* the texts typed into the chat input
Messages == {"q1", "q2"}

\* line 167: the text runDeepIntel resolves with for the n-th call
ReplyTo(n) == [reply |-> n]

\* lines 162-165, called from the input's onKeyDown (lines 213-218), which is not
\* disabled while a request is pending: newHistory is built from the chatHistory
\* of the current render, set as the state, and kept by the call for line 168
HandleChat(msg) ==
    /\ Len(chatLog.sent) < MaxChats
    /\ LET newHistory == Append(chatHistory, [role |-> "user", text |-> msg])
       IN  /\ chatHistory' = newHistory
           /\ chatCalls' = chatCalls \cup
                             {[call |-> Len(chatLog.sent) + 1, newHistory |-> newHistory]}
    /\ isLoading' = TRUE
    /\ chatLog' = [chatLog EXCEPT !.sent = Append(@, msg)]
    /\ UNCHANGED <<liveVars, codecVars>>

\* lines 167-168, 171-172: runDeepIntel resolves for a pending call, in any order:
\* the state is set to the call's own newHistory plus the reply
ChatReply(c) ==
    /\ c \in chatCalls
    /\ chatHistory' = Append(c.newHistory, [role |-> "model", text |-> ReplyTo(c.call)])
    /\ isLoading' = FALSE
    /\ chatCalls' = chatCalls \ {c}
    /\ chatLog' = [chatLog EXCEPT !.replied = @ \cup {c.call}]
    /\ UNCHANGED <<liveVars, codecVars>>

\* lines 169-172: runDeepIntel rejects: the error is logged, the history is left
ChatFail(c) ==
    /\ c \in chatCalls
    /\ isLoading' = FALSE
    /\ chatCalls' = chatCalls \ {c}
    /\ chatLog' = [chatLog EXCEPT !.failed = TRUE]
    /\ UNCHANGED <<liveVars, codecVars, chatHistory>>

NextChat ==
    \/ \E msg \in Messages : HandleChat(msg)
    \/ \E c \in chatCalls : ChatReply(c)
    \/ \E c \in chatCalls : ChatFail(c)

SpecChat == Init /\ [][NextChat]_vars

\* ---- the claims ----

\* C1: the Playback Cursor is non-decreasing: no step of an onmessage handler (its call
\* or its resumption), at any reading of the clock and for any chunk duration, leaves
\* nextStartTimeRef smaller than it was.
C1_CursorMonotone == [][nextStartTimeRef' >= nextStartTimeRef]_vars

\* C1 witness: two chunks were handled, the second one after the clock had passed the
\* cursor, so the cursor was moved by a clamp and by two advances.
C1_Witness ==
    /\ Len(scheduled) = 2
    /\ pending = <<>>
    /\ scheduled[2].start > scheduled[1].start + scheduled[1].dur
    /\ nextStartTimeRef = scheduled[2].start + scheduled[2].dur

\* the calls of onmessage made so far, oldest first
Calls == [k \in 1..(Len(scheduled) + Len(pending)) |->
            IF k <= Len(scheduled) THEN scheduled[k].fast
            ELSE pending[k - Len(scheduled)].fast]

\* every call after the first found the clock at or before the cursor
FasterThanRealTime == \A k \in 2..Len(Calls) : Calls[k]

\* C2: gapless scheduling: when every call after the first arrives faster than real
\* time (clock <= cursor at the call), each chunk starts exactly where the previous one
\* ends, and the first chunk starts no earlier than the clock read at its call.
C2_Gapless ==
    FasterThanRealTime =>
        /\ \A k \in 1..(Len(scheduled) - 1) :
              scheduled[k + 1].start = scheduled[k].start + scheduled[k].dur
        /\ Len(scheduled) >= 1 => scheduled[1].start >= scheduled[1].callClock

\* C2 witness: three chunks scheduled, the first called late (the clock had passed the
\* cursor), the two others faster than real time.
C2_Witness ==
    /\ Len(scheduled) = 3
    /\ pending = <<>>
    /\ ~scheduled[1].fast
    /\ scheduled[1].start > 0
    /\ FasterThanRealTime

\* the playback intervals [start, start + dur) of two scheduled sources are disjoint
Disjoint(a, b) == a.start + a.dur <= b.start \/ b.start + b.dur <= a.start

\* C3: no overlap: any two chunks scheduled on the same output context occupy disjoint
\* intervals, whatever the arrival times and the interleaving of the handlers.
C3_NoOverlap ==
    \A j, k \in 1..Len(scheduled) :
        (j < k /\ scheduled[j].ctx = scheduled[k].ctx) => Disjoint(scheduled[j], scheduled[k])

\* C3 witness: three chunks scheduled, one of them by a handler that was overtaken at
\* its await: it was called late at clock c, yet it started after c because a later
\* call clamped the cursor before it resumed.
C3_Witness ==
    /\ Len(scheduled) = 3
    /\ \E k \in 1..3 : ~scheduled[k].fast /\ scheduled[k].start > scheduled[k].callClock

\* the three chunks of the scenario were each handled, call and resumption, at the
\* clock readings 0.0 s, 0.1 s and 0.9 s, from a cursor of 0
ScenarioRan ==
    /\ Len(scheduled) = 3
    /\ pending = <<>>
    /\ <<scheduled[1].dur, scheduled[2].dur, scheduled[3].dur>> = <<5, 3, 2>>
    /\ <<scheduled[1].callClock, scheduled[2].callClock, scheduled[3].callClock>> = <<0, 1, 9>>
    /\ \A k \in 1..3 : scheduled[k].startClock = scheduled[k].callClock

\* C4: end-to-end scenario: chunks of 0.5 s, 0.3 s and 0.2 s handled at clock 0.0 s,
\* 0.1 s and 0.9 s from a cursor of 0 start at 0.0 s, 0.5 s and 0.9 s, and the cursor
\* ends at 1.1 s.
C4_Scenario ==
    ScenarioRan =>
        /\ <<scheduled[1].start, scheduled[2].start, scheduled[3].start>> = <<0, 5, 9>>
        /\ nextStartTimeRef = 11

\* C4 witness: the scenario has run.
C4_Witness == ScenarioRan /\ nextStartTimeRef = 11

\* C5: idempotent start: a call of startLiveComm made while isLiveActive is true
\* changes nothing of the relay: no session, no context, no reference, no cursor, no
\* source.
C5_IdempotentStart ==
    [][(startCalls' = startCalls + 1 /\ isLiveActive) => UNCHANGED relayVars]_vars

\* C5 witness: a call of startLiveComm was made while the session was active and
\* returned at the guard: two calls, one invocation, one session, still active.
C5_Witness ==
    /\ startCalls = 2
    /\ isLiveActive
    /\ pc[2] = "idle"
    /\ session[1] = "open"
    /\ session[2] = "none"

\* C6: a start request made while an earlier one is still connecting opens no second
\* remote session.
C6_StartWhileConnecting ==
    [][(startCalls' = startCalls + 1 /\ \E i \in Invocations : session[i] = "connecting")
         => session' = session]_vars

\* C7: after stopLiveComm every source of the Active Source Set has been stopped and
\* the set is empty.
C7_TeardownClearsSources ==
    [][StopLiveComm =>
          /\ sourcesRef' = {}
          /\ \A k \in 1..Len(scheduled') : scheduled'[k].stopped]_vars

\* C8: a start request that begins a session finds or leaves the Playback Cursor at 0,
\* so the first chunk of the new session is not scheduled at a time carried over.
C8_CursorResetOnStart ==
    [][(startCalls' = startCalls + 1 /\ audioContextRef' # audioContextRef)
         => nextStartTimeRef' = 0]_vars

\* C9: a stop issued while the session is active closes the remote session: no remote
\* session is left open after it (stated for runs with a single start request).
C9_StopClosesSession ==
    [][(StopLiveComm /\ isLiveActive /\ startCalls = 1)
         => \A i \in Invocations : session'[i] # "open"]_vars

\* C10: after a stop action, while the session stays inactive, no microphone capture is
\* running (and so no outbound frame is sent), whether getUserMedia had resolved before
\* the stop or not (stated for runs with a single start request).
C10_StopStopsCapture ==
    (lastReq = "stop" /\ ~isLiveActive /\ startCalls = 1)
        => \A i \in Invocations : capture[i] # "on"

\* C11: when the error callback of a session fires while the session is active, the
\* session leaves Active: isLiveActive is false after the callback.
C11_ErrorEndsSession ==
    [][((\E i \in Invocations : session[i] = "open" /\ session'[i] = "errored")
          /\ isLiveActive) => ~isLiveActive']_vars

\* C12: a failed acquisition never leaves the UI reporting the session active while the
\* remote session is open with no capture and no stored session reference.
C12_NoHalfInitialized ==
    \A i \in Invocations :
        ~(/\ pc[i] = "failed"
          /\ session[i] = "open"
          /\ isLiveActive
          /\ capture[i] = "off"
          /\ liveSessionRef = 0)

C16_StartNotInPast ==
    \A k \in 1..Len(scheduled) : scheduled[k].start >= scheduled[k].startClock

\* C17: outbound frames are sent only while the session is active: every call of
\* session.sendRealtimeInput is made in a state where isLiveActive is true (stated for
\* runs in which the user has not stopped the session).
C17_SendOnlyWhileActive ==
    [][(framesSent' = framesSent + 1 /\ lastReq = "start") => isLiveActive]_vars

\* C18: inbound chunks are scheduled only while the session is active: a step taken
\* while isLiveActive is false leaves the Playback Cursor and the Active Source Set
\* as they are and starts no source.
C18_ScheduleOnlyWhileActive ==
    [][~isLiveActive => /\ nextStartTimeRef' = nextStartTimeRef
                        /\ sourcesRef' = sourcesRef
                        /\ scheduled' = scheduled]_vars

\* C14: truncation on decode: for every byte block holding at least one whole frame,
\* of odd length in particular, decodeAudioData does not fail and yields exactly
\* floor(L / (2 * c)) frames.
C14_Truncation ==
    (codecOut.stage = "decoded" /\ Len(codecIn.data) >= 2 * codecIn.numChannels)
        => /\ codecOut.buffer.ok
           /\ codecOut.buffer.frames = Len(codecIn.data) \div (2 * codecIn.numChannels)

\* the absolute value
Abs(x) == IF x >= 0 THEN x ELSE -x

\* every sample of the block lies in [-1, 1)
InRange(input) ==
    \A k \in 1..Len(input) :
        input[k] >= -(FullScale * SubSteps) /\ input[k] < FullScale * SubSteps

\* C15: encode / decode round trip: a block of samples in [-1, 1) that is quantized,
\* packed, base64-encoded, base64-decoded and decoded as one channel comes back with
\* the same length and with every sample less than 1/32768 from the original.
C15_RoundTrip ==
    (codecOut.stage = "decoded" /\ InRange(codecIn.input))
        => /\ codecOut.buffer.ok
           /\ codecOut.buffer.frames = Len(codecIn.input)
           /\ \A k \in 1..Len(codecIn.input) :
                 Abs(codecOut.buffer.channels[1][k] * SubSteps - codecIn.input[k]) < SubSteps

\* C15 witness: a block of two samples in range, one negative with a fraction and one
\* whose low byte is 255, has gone through the round trip.
C15_Witness ==
    /\ codecOut.stage = "decoded"
    /\ codecIn.input = <<-1, 255 * SubSteps>>
    /\ codecOut.buffer.ok
    /\ codecOut.buffer.channels[1] = <<0, 255>>

\* the positions of chatHistory that hold the user message with text m
UserAt(m) ==
    {p \in 1..Len(chatHistory) : chatHistory[p].role = "user" /\ chatHistory[p].text = m}

\* C19: chat history loses no message: once every handleChat call has completed
\* and none has failed, the history holds every submitted user message and the
\* reply to every call, each reply after the user message that triggered it.
C19_NoMessageLost ==
    (chatCalls = {} /\ ~chatLog.failed)
        => /\ \A m \in Messages :
                 Cardinality(UserAt(m)) >=
                     Cardinality({n \in 1..Len(chatLog.sent) : chatLog.sent[n] = m})
           /\ \A n \in 1..Len(chatLog.sent) :
                 \E p \in 1..Len(chatHistory) :
                     /\ chatHistory[p].role = "model"
                     /\ chatHistory[p].text = ReplyTo(n)
                     /\ \E q \in UserAt(chatLog.sent[n]) : q < p

====
